---- MODULE Spec2Model ----
(***************************************************************************)
(* Model of the authenticated API access layer of broken-heart:            *)
(* WhoopAuth (whoop_auth.py), the OAuth callback handlers (auth_server.py, *)
(* streamlit_oauth.py), the persisted token file and WhoopClient           *)
(* (whoop_client.py).                                                      *)
(*                                                                         *)
(* Time is counted in seconds.  A python dict is a function whose DOMAIN   *)
(* is the set of keys it holds; python None is the value Null.             *)
(***************************************************************************)
EXTENDS Integers, Sequences, FiniteSets, TLC

VARIABLES
    now,            \* datetime.now(), in seconds
    tokens,         \* WhoopAuth.tokens of the instance in use (in the web
                    \* handlers: of the module-level auth of auth_server)
    token_file,     \* tokens/whoop_tokens.json: [exists, content]
    session,        \* Flask session['oauth_state'] (Null when not set)
    session_state,  \* Streamlit st.session_state['oauth_state'] (Null when not set)
    last,           \* observation of the most recent operation
    call,           \* the running or finished WhoopClient._paginate_request call
                    \* (in SpecCrash: the position of the process in _save_tokens)
    client          \* WhoopClient.rate_limit_remaining and rate_limit_reset

vars == <<now, tokens, token_file, session, session_state, last, call, client>>

(***************************************************************************)
(* Bounds of the model.                                                    *)
(***************************************************************************)
MaxNow == 2
MaxLatency == 1

(***************************************************************************)
(* Program constants.                                                      *)
(***************************************************************************)
DefaultExpiresIn == 3600
RefreshMargin == 300

(***************************************************************************)
(* Values.                                                                 *)
(***************************************************************************)
Null == "None"

Truthy(v) == v /= Null /\ v /= ""

Get(d, k, default) == IF k \in DOMAIN d THEN d[k] ELSE default

EmptyDict == [k \in {} |-> Null]

KeyOrder == <<"access_token", "refresh_token", "expires_at", "token_type">>

\* datetime.isoformat() / datetime.fromisoformat(): a date part and a time part
isoformat(t) == [date |-> t \div 86400, time |-> t % 86400]

fromisoformat(s) == s.date * 86400 + s.time

(***************************************************************************)
(* The token file.  json.dump writes the dict's items in insertion order,  *)
(* json.load rebuilds the dict from the items.                             *)
(***************************************************************************)
NoFile == [exists |-> FALSE, content |-> <<>>]

\* a serializer that leaves out a refresh token whose value is null
json_dump_skip_null(d) ==
    LET ks == SelectSeq(KeyOrder, LAMBDA k :
                  k \in DOMAIN d /\ ~(k = "refresh_token" /\ d[k] = Null))
    IN  [i \in 1..Len(ks) |-> <<ks[i], d[ks[i]]>>]

json_dump(d) ==
    LET ks == SelectSeq(KeyOrder, LAMBDA k : k \in DOMAIN d)
    IN  [i \in 1..Len(ks) |-> <<ks[i], d[ks[i]]>>]

json_load(c) ==
    LET idx(k) == CHOOSE i \in 1..Len(c) : c[i][1] = k
    IN  [k \in {c[i][1] : i \in 1..Len(c)} |-> c[idx(k)][2]]

_save_tokens(tk) == [exists |-> TRUE, content |-> json_dump(tk)]

_load_tokens(fl) == IF fl.exists THEN json_load(fl.content) ELSE EmptyDict

(***************************************************************************)
(* Responses of the provider's token endpoint.                             *)
(***************************************************************************)
AccessTokens == {"at1", "at2"}
RefreshTokens == {"rt1", "rt2"}
ExpiresIns == {299, 301}
TokenTypes == {"MAC"}
Statuses == {200, 400, 500}

\* a JSON object with each key present (one value) or absent (no value)
Opt(S) == {{}} \cup {{v} : v \in S}

Body(a, r, e, ty) ==
    LET ks == (IF a = {} THEN {} ELSE {"access_token"})
              \cup (IF r = {} THEN {} ELSE {"refresh_token"})
              \cup (IF e = {} THEN {} ELSE {"expires_in"})
              \cup (IF ty = {} THEN {} ELSE {"token_type"})
    IN  [k \in ks |->
            CASE k = "access_token"  -> CHOOSE v \in a : TRUE
              [] k = "refresh_token" -> CHOOSE v \in r : TRUE
              [] k = "expires_in"    -> CHOOSE v \in e : TRUE
              [] k = "token_type"    -> CHOOSE v \in ty : TRUE]

\* 2xx bodies that carry an access token
GrantBodies ==
    {Body({a}, r, e, ty) : a \in AccessTokens, r \in Opt(RefreshTokens \cup {Null}),
                           e \in Opt(ExpiresIns), ty \in Opt(TokenTypes)}

\* 2xx bodies that carry no access token
BadBodies == {Body({}, {}, {}, {}), Body({}, {"rt2"}, {299}, {"MAC"})}

Bodies == GrantBodies \cup BadBodies

\* reached: the POST got a response; json: the body parses as a JSON object
TokenResponses ==
    {[reached |-> FALSE, status |-> 200, json |-> FALSE, body |-> EmptyDict]}
    \cup {[reached |-> TRUE, status |-> s, json |-> FALSE, body |-> EmptyDict] :
            s \in Statuses}
    \cup {[reached |-> TRUE, status |-> 200, json |-> TRUE, body |-> b] : b \in Bodies}

NoResponse == [reached |-> FALSE, status |-> 200, json |-> FALSE, body |-> EmptyDict]

\* requests.Response.raise_for_status
raise_for_status(status) == status >= 400 /\ status < 600

(***************************************************************************)
(* WhoopAuth operations.  Each yields the instance's tokens, the token     *)
(* file and the clock after the call, the exception raised (Null when it   *)
(* returned), the number of POSTs sent to the token endpoint and the       *)
(* number of calls of refresh_access_token.  lat is the time the HTTP      *)
(* round trip takes.                                                       *)
(***************************************************************************)
Outcome(tk, fl, t, err, ret, posts, refreshes) ==
    [tokens |-> tk, file |-> fl, now |-> t, err |-> err, ret |-> ret,
     posts |-> posts, refreshes |-> refreshes, deletes |-> 0, delete |-> Null,
     reply |-> Null]

TokenKeys == {KeyOrder[i] : i \in DOMAIN KeyOrder}

\* the TokenSet built from an authorization-code grant received at time t1
ExchangeTokens_fixed_lifetime(token_data, t1) ==
    [k \in TokenKeys |->
        CASE k = "access_token"  -> token_data["access_token"]
          [] k = "refresh_token" -> Get(token_data, "refresh_token", Null)
          [] k = "expires_at"    -> isoformat(t1 + DefaultExpiresIn)
          [] k = "token_type"    -> Get(token_data, "token_type", "Bearer")]

ExchangeTokens(token_data, t1) ==
    [k \in TokenKeys |->
        CASE k = "access_token"  -> token_data["access_token"]
          [] k = "refresh_token" -> Get(token_data, "refresh_token", Null)
          [] k = "expires_at"    ->
                isoformat(t1 + Get(token_data, "expires_in", DefaultExpiresIn))
          [] k = "token_type"    -> Get(token_data, "token_type", "Bearer")]

exchange_code_for_token_get(tk, fl, t, resp, lat) ==
    LET t1 == t + lat
        token_data == [k \in DOMAIN resp.body \cup {"access_token"} |->
                          Get(resp.body, k, Null)]
        newTokens == ExchangeTokens(token_data, t1)
    IN  IF ~resp.reached THEN Outcome(tk, fl, t1, "ConnectionError", Null, 1, 0)
        ELSE IF raise_for_status(resp.status)
            THEN Outcome(tk, fl, t1, "HTTPError", Null, 1, 0)
        ELSE IF ~resp.json THEN Outcome(tk, fl, t1, "JSONDecodeError", Null, 1, 0)
        ELSE Outcome(newTokens, _save_tokens(newTokens), t1, Null, Null, 1, 0)

exchange_code_for_token(tk, fl, t, resp, lat) ==
    LET t1 == t + lat
        token_data == resp.body
        newTokens == ExchangeTokens(token_data, t1)
    IN  IF ~resp.reached THEN Outcome(tk, fl, t1, "ConnectionError", Null, 1, 0)
        ELSE IF raise_for_status(resp.status)
            THEN Outcome(tk, fl, t1, "HTTPError", Null, 1, 0)
        ELSE IF ~resp.json THEN Outcome(tk, fl, t1, "JSONDecodeError", Null, 1, 0)
        ELSE IF "access_token" \notin DOMAIN token_data
            THEN Outcome(tk, fl, t1, "KeyError", Null, 1, 0)
        ELSE Outcome(newTokens, _save_tokens(newTokens), t1, Null, Null, 1, 0)

\* the TokenSet built from a refresh grant received at time t1
RefreshedTokens_erase(tk, token_data, t1) ==
    [k \in TokenKeys |->
        CASE k = "access_token"  -> token_data["access_token"]
          [] k = "refresh_token" -> Get(token_data, "refresh_token", Null)
          [] k = "expires_at"    ->
                isoformat(t1 + Get(token_data, "expires_in", DefaultExpiresIn))
          [] k = "token_type"    -> Get(token_data, "token_type", "Bearer")]

RefreshedTokens_keep_type(tk, token_data, t1) ==
    [k \in TokenKeys |->
        CASE k = "access_token"  -> token_data["access_token"]
          [] k = "refresh_token" ->
                Get(token_data, "refresh_token", tk["refresh_token"])
          [] k = "expires_at"    ->
                isoformat(t1 + Get(token_data, "expires_in", DefaultExpiresIn))
          [] k = "token_type"    ->
                Get(token_data, "token_type", Get(tk, "token_type", "Bearer"))]

RefreshedTokens(tk, token_data, t1) ==
    [k \in TokenKeys |->
        CASE k = "access_token"  -> token_data["access_token"]
          [] k = "refresh_token" ->
                Get(token_data, "refresh_token", tk["refresh_token"])
          [] k = "expires_at"    ->
                isoformat(t1 + Get(token_data, "expires_in", DefaultExpiresIn))
          [] k = "token_type"    -> Get(token_data, "token_type", "Bearer")]

refresh_access_token_logout_on_failure(tk, fl, t, resp, lat) ==
    LET t1 == t + lat
        token_data == resp.body
        newTokens == RefreshedTokens(tk, token_data, t1)
    IN  IF ~Truthy(Get(tk, "refresh_token", Null))
            THEN Outcome(tk, fl, t, "ValueError: No refresh token available", Null, 0, 1)
        ELSE IF ~resp.reached THEN Outcome(tk, fl, t1, "ConnectionError", Null, 1, 1)
        ELSE IF raise_for_status(resp.status)
            THEN Outcome(EmptyDict, NoFile, t1, "HTTPError", Null, 1, 1)
        ELSE IF ~resp.json THEN Outcome(tk, fl, t1, "JSONDecodeError", Null, 1, 1)
        ELSE IF "access_token" \notin DOMAIN token_data
            THEN Outcome(tk, fl, t1, "KeyError", Null, 1, 1)
        ELSE Outcome(newTokens, _save_tokens(newTokens), t1, Null, Null, 1, 1)

\* the POST is sent before the refresh token is looked at
refresh_access_token_posts_first(tk, fl, t, resp, lat) ==
    LET t1 == t + lat
        token_data == resp.body
    IN  IF ~resp.reached THEN Outcome(tk, fl, t1, "ConnectionError", Null, 1, 1)
        ELSE IF raise_for_status(resp.status)
            THEN Outcome(tk, fl, t1, "HTTPError", Null, 1, 1)
        ELSE IF ~Truthy(Get(tk, "refresh_token", Null))
            THEN Outcome(tk, fl, t1, "ValueError: No refresh token available", Null, 1, 1)
        ELSE IF ~resp.json THEN Outcome(tk, fl, t1, "JSONDecodeError", Null, 1, 1)
        ELSE IF "access_token" \notin DOMAIN token_data
            THEN Outcome(tk, fl, t1, "KeyError", Null, 1, 1)
        ELSE Outcome(RefreshedTokens(tk, token_data, t1),
                     _save_tokens(RefreshedTokens(tk, token_data, t1)), t1, Null, Null, 1, 1)

\* the refresh token is not looked at before the POST
refresh_access_token_no_check(tk, fl, t, resp, lat) ==
    LET t1 == t + lat
        token_data == resp.body
        newTokens == RefreshedTokens_erase(tk, token_data, t1)
    IN  IF ~resp.reached THEN Outcome(tk, fl, t1, "ConnectionError", Null, 1, 1)
        ELSE IF raise_for_status(resp.status)
            THEN Outcome(tk, fl, t1, "HTTPError", Null, 1, 1)
        ELSE IF ~resp.json THEN Outcome(tk, fl, t1, "JSONDecodeError", Null, 1, 1)
        ELSE IF "access_token" \notin DOMAIN token_data
            THEN Outcome(tk, fl, t1, "KeyError", Null, 1, 1)
        ELSE Outcome(newTokens, _save_tokens(newTokens), t1, Null, Null, 1, 1)

refresh_access_token(tk, fl, t, resp, lat) ==
    LET t1 == t + lat
        token_data == resp.body
        newTokens == RefreshedTokens(tk, token_data, t1)
    IN  IF ~Truthy(Get(tk, "refresh_token", Null))
            THEN Outcome(tk, fl, t, "ValueError: No refresh token available", Null, 0, 1)
        ELSE IF ~resp.reached THEN Outcome(tk, fl, t1, "ConnectionError", Null, 1, 1)
        ELSE IF raise_for_status(resp.status)
            THEN Outcome(tk, fl, t1, "HTTPError", Null, 1, 1)
        ELSE IF ~resp.json THEN Outcome(tk, fl, t1, "JSONDecodeError", Null, 1, 1)
        ELSE IF "access_token" \notin DOMAIN token_data
            THEN Outcome(tk, fl, t1, "KeyError", Null, 1, 1)
        ELSE Outcome(newTokens, _save_tokens(newTokens), t1, Null, Null, 1, 1)

get_valid_access_token_no_margin(tk, fl, t, resp, lat) ==
    IF ~Truthy(Get(tk, "access_token", Null))
        THEN Outcome(tk, fl, t, "ValueError: No access token available", Null, 0, 0)
    ELSE IF "expires_at" \notin DOMAIN tk
        THEN Outcome(tk, fl, t, "KeyError", Null, 0, 0)
    ELSE IF t >= fromisoformat(tk["expires_at"])
        THEN LET r == refresh_access_token(tk, fl, t, resp, lat)
             IN  IF r.err /= Null THEN r
                 ELSE [r EXCEPT !.ret = r.tokens["access_token"]]
    ELSE Outcome(tk, fl, t, Null, tk["access_token"], 0, 0)

get_valid_access_token_stale_fallback(tk, fl, t, resp, lat) ==
    IF ~Truthy(Get(tk, "access_token", Null))
        THEN Outcome(tk, fl, t, "ValueError: No access token available", Null, 0, 0)
    ELSE IF "expires_at" \notin DOMAIN tk
        THEN Outcome(tk, fl, t, "KeyError", Null, 0, 0)
    ELSE IF t >= fromisoformat(tk["expires_at"]) - RefreshMargin
        THEN LET r == refresh_access_token(tk, fl, t, resp, lat)
             IN  [r EXCEPT !.err = Null, !.ret = r.tokens["access_token"]]
    ELSE Outcome(tk, fl, t, Null, tk["access_token"], 0, 0)

\* without an access token a refresh is tried
get_valid_access_token_refresh_first(tk, fl, t, resp, lat) ==
    IF ~Truthy(Get(tk, "access_token", Null))
        THEN refresh_access_token(tk, fl, t, resp, lat)
    ELSE IF "expires_at" \notin DOMAIN tk
        THEN Outcome(tk, fl, t, "KeyError", Null, 0, 0)
    ELSE IF t >= fromisoformat(tk["expires_at"]) - RefreshMargin
        THEN LET r == refresh_access_token(tk, fl, t, resp, lat)
             IN  IF r.err /= Null THEN r
                 ELSE [r EXCEPT !.ret = r.tokens["access_token"]]
    ELSE Outcome(tk, fl, t, Null, tk["access_token"], 0, 0)

\* the expiry is never looked at
get_valid_access_token_never_refreshes(tk, fl, t, resp, lat) ==
    IF ~Truthy(Get(tk, "access_token", Null))
        THEN Outcome(tk, fl, t, "ValueError: No access token available", Null, 0, 0)
    ELSE Outcome(tk, fl, t, Null, tk["access_token"], 0, 0)

\* a missing access token is returned as None instead of raising
get_valid_access_token_returns_none(tk, fl, t, resp, lat) ==
    IF ~Truthy(Get(tk, "access_token", Null))
        THEN Outcome(tk, fl, t, Null, Null, 0, 0)
    ELSE IF "expires_at" \notin DOMAIN tk
        THEN Outcome(tk, fl, t, "KeyError", Null, 0, 0)
    ELSE IF t >= fromisoformat(tk["expires_at"]) - RefreshMargin
        THEN LET r == refresh_access_token(tk, fl, t, resp, lat)
             IN  IF r.err /= Null THEN r
                 ELSE [r EXCEPT !.ret = r.tokens["access_token"]]
    ELSE Outcome(tk, fl, t, Null, tk["access_token"], 0, 0)

get_valid_access_token(tk, fl, t, resp, lat) ==
    IF ~Truthy(Get(tk, "access_token", Null))
        THEN Outcome(tk, fl, t, "ValueError: No access token available", Null, 0, 0)
    ELSE IF "expires_at" \notin DOMAIN tk
        THEN Outcome(tk, fl, t, "KeyError", Null, 0, 0)
    ELSE IF t >= fromisoformat(tk["expires_at"]) - RefreshMargin
        THEN LET r == refresh_access_token(tk, fl, t, resp, lat)
             IN  IF r.err /= Null THEN r
                 ELSE [r EXCEPT !.ret = r.tokens["access_token"]]
    ELSE Outcome(tk, fl, t, Null, tk["access_token"], 0, 0)

\* only the access token is looked at
is_authenticated_access_only(tk) == Truthy(Get(tk, "access_token", Null))

is_authenticated(tk) ==
    Truthy(Get(tk, "access_token", Null)) /\ Truthy(Get(tk, "refresh_token", Null))

\* values of secrets.token_urlsafe(8)
States == {"s1", "s2"}

\* a new authorization attempt drops the stored tokens
generate_auth_url_resets(tk, fl, t, state) ==
    Outcome(EmptyDict, NoFile, t, Null, state, 0, 0)

\* returns (auth_url, state); state is the value drawn by secrets.token_urlsafe
generate_auth_url(tk, fl, t, state) == Outcome(tk, fl, t, Null, state, 0, 0)

\* outcome of the best-effort DELETE of revoke_access
DeleteOutcomes == {"ok", "http_error", "connection_error"}

revoke_access_tokens_only(tk, fl, t, del, lat) ==
    LET left == [k \in DOMAIN tk \ {"access_token", "refresh_token"} |-> tk[k]]
    IN  IF Truthy(Get(tk, "access_token", Null))
            THEN [Outcome(left, NoFile, t + lat, Null, Null, 0, 0)
                     EXCEPT !.deletes = 1, !.delete = del]
            ELSE Outcome(left, NoFile, t, Null, Null, 0, 0)

\* the exception of the DELETE is not caught
revoke_access_raises(tk, fl, t, del, lat) ==
    IF Truthy(Get(tk, "access_token", Null))
        THEN IF del = "connection_error"
             THEN [Outcome(tk, fl, t + lat, "ConnectionError", Null, 0, 0)
                      EXCEPT !.deletes = 1, !.delete = del]
             ELSE [Outcome(EmptyDict, NoFile, t + lat, Null, Null, 0, 0)
                      EXCEPT !.deletes = 1, !.delete = del]
        ELSE Outcome(EmptyDict, NoFile, t, Null, Null, 0, 0)

\* the token file is not removed
revoke_access_keep_file(tk, fl, t, del, lat) ==
    IF Truthy(Get(tk, "access_token", Null))
        THEN [Outcome(EmptyDict, fl, t + lat, Null, Null, 0, 0)
                 EXCEPT !.deletes = 1, !.delete = del]
        ELSE Outcome(EmptyDict, fl, t, Null, Null, 0, 0)

\* The DELETE is sent when there is an access token; whatever comes of it
\* (a response of any status, or an exception, which is caught) the tokens
\* are cleared and the token file is removed.
revoke_access(tk, fl, t, del, lat) ==
    IF Truthy(Get(tk, "access_token", Null))
        THEN [Outcome(EmptyDict, NoFile, t + lat, Null, Null, 0, 0)
                 EXCEPT !.deletes = 1, !.delete = del]
        ELSE Outcome(EmptyDict, NoFile, t, Null, Null, 0, 0)

(***************************************************************************)
(* WhoopClient (whoop_client.py).  A JSON value returned by the resource   *)
(* API is [kind, body, items]: kind "dict" with body the dict, or kind     *)
(* "list" with items the elements.  A _paginate_request call is a frame: its position pc  *)
(* ("idle" before any call, "loop" at the head of the while loop,          *)
(* "returned" with all_records as the result, "raised" with err), its      *)
(* locals, and the requests it sent and the JSON values it received.       *)
(***************************************************************************)
NoCall ==
    [pc |-> "idle", params |-> EmptyDict, all_records |-> <<>>,
     next_token |-> Null, requests |-> <<>>, responses |-> <<>>, err |-> Null]

NoRequest == [params |-> EmptyDict, bearer |-> Null]

\* the X-RateLimit-Remaining and X-RateLimit-Reset headers of a response; a
\* header that is not there is Null
NoHeaders == [remaining |-> Null, reset |-> Null]

\* the rate-limit headers the provider puts on a response of a status
ProviderHeaders(status) ==
    IF status = 200 THEN [remaining |-> "99", reset |-> "60"]
    ELSE IF status = 429 THEN [remaining |-> "0", reset |-> "60"]
    ELSE NoHeaders

NoApiResponse ==
    [status |-> 0, kind |-> "dict", body |-> EmptyDict, items |-> <<>>,
     headers |-> NoHeaders]

\* WhoopClient.__init__: no rate limit recorded yet
NoRateLimit == [rate_limit_remaining |-> Null, rate_limit_reset |-> Null]

\* no clamping: the first argument as it is
min_first(a, b) == a

min(a, b) == IF a < b THEN a ELSE b

\* list.extend with the arguments swapped: the new items go in front
extend_in_front(l, items) == items \o l

\* list.extend
extend(l, items) == l \o items

\* a request that is sent a second time when the API answers 429
_make_request_retry_429(tk, fl, t, tokresp, lat, params, api, glat, cl) ==
    LET a == get_valid_access_token(tk, fl, t, tokresp, lat)
    IN  IF a.err /= Null
        THEN [auth |-> a, sent |-> FALSE, gets |-> 0, request |-> NoRequest,
              now |-> a.now, err |-> a.err, client |-> cl,
              json |-> [kind |-> "dict", body |-> EmptyDict, items |-> <<>>]]
        ELSE [auth |-> a, sent |-> TRUE, gets |-> IF api.status = 429 THEN 2 ELSE 1,
              request |-> [params |-> params, bearer |-> a.ret],
              now |-> a.now + glat,
              client |-> [rate_limit_remaining |-> api.headers.remaining,
                          rate_limit_reset |-> api.headers.reset],
              err |-> IF raise_for_status(api.status) THEN "HTTPError" ELSE Null,
              json |-> [kind |-> api.kind, body |-> api.body, items |-> api.items]]

\* the rate-limit headers are recorded only after raise_for_status let the
\* response through
_make_request_track_after_raise(tk, fl, t, tokresp, lat, params, api, glat, cl) ==
    LET a == get_valid_access_token(tk, fl, t, tokresp, lat)
    IN  IF a.err /= Null
        THEN [auth |-> a, sent |-> FALSE, gets |-> 0, request |-> NoRequest,
              now |-> a.now, err |-> a.err, client |-> cl,
              json |-> [kind |-> "dict", body |-> EmptyDict, items |-> <<>>]]
        ELSE [auth |-> a, sent |-> TRUE, gets |-> 1,
              request |-> [params |-> params, bearer |-> a.ret],
              now |-> a.now + glat,
              client |-> IF raise_for_status(api.status) THEN cl
                         ELSE [rate_limit_remaining |-> api.headers.remaining,
                               rate_limit_reset |-> api.headers.reset],
              err |-> IF raise_for_status(api.status) THEN "HTTPError" ELSE Null,
              json |-> [kind |-> api.kind, body |-> api.body, items |-> api.items]]

\* a request that sends the access token held before the validation
_make_request_cached_token(tk, fl, t, tokresp, lat, params, api, glat, cl) ==
    LET a == get_valid_access_token(tk, fl, t, tokresp, lat)
    IN  IF a.err /= Null
        THEN [auth |-> a, sent |-> FALSE, gets |-> 0, request |-> NoRequest,
              now |-> a.now, err |-> a.err, client |-> cl,
              json |-> [kind |-> "dict", body |-> EmptyDict, items |-> <<>>]]
        ELSE [auth |-> a, sent |-> TRUE, gets |-> 1,
              request |-> [params |-> params, bearer |-> tk["access_token"]],
              now |-> a.now + glat,
              client |-> [rate_limit_remaining |-> api.headers.remaining,
                          rate_limit_reset |-> api.headers.reset],
              err |-> IF raise_for_status(api.status) THEN "HTTPError" ELSE Null,
              json |-> [kind |-> api.kind, body |-> api.body, items |-> api.items]]

\* tk, fl, t: the WhoopAuth instance, the token file and the clock; tokresp
\* and lat answer the token refresh if one is made, api and glat the GET;
\* gets counts the calls of requests.get; cl holds the rate-limit
\* attributes of the client before the call, client after it
_make_request(tk, fl, t, tokresp, lat, params, api, glat, cl) ==
    LET a == get_valid_access_token(tk, fl, t, tokresp, lat)
    IN  IF a.err /= Null
        THEN [auth |-> a, sent |-> FALSE, gets |-> 0, request |-> NoRequest,
              now |-> a.now, err |-> a.err, client |-> cl,
              json |-> [kind |-> "dict", body |-> EmptyDict, items |-> <<>>]]
        ELSE [auth |-> a, sent |-> TRUE, gets |-> 1,
              request |-> [params |-> params, bearer |-> a.ret],
              now |-> a.now + glat,
              client |-> [rate_limit_remaining |-> api.headers.remaining,
                          rate_limit_reset |-> api.headers.reset],
              err |-> IF raise_for_status(api.status) THEN "HTTPError" ELSE Null,
              json |-> [kind |-> api.kind, body |-> api.body, items |-> api.items]]

\* _paginate_request up to the while loop
paginate_start(limit) ==
    [NoCall EXCEPT !.pc = "loop", !.params = ("limit" :> min(limit, 25))]

\* a loop head that never puts the continuation token into the parameters
loop_params_no_cursor(c) == c.params

\* head of the loop: params['nextToken'] = next_token when next_token is set
loop_params(c) ==
    IF Truthy(c.next_token)
        THEN ("nextToken" :> c.next_token) @@ c.params
        ELSE c.params

\* an iteration that goes on as long as pages carry records, whether or not
\* they carry a continuation token
paginate_step_until_empty(c, m) ==
    LET c1 == [c EXCEPT !.params = loop_params(c),
                        !.requests = IF m.sent THEN Append(@, m.request) ELSE @]
    IN  IF m.err /= Null
        THEN [c1 EXCEPT !.pc = "raised", !.err = m.err]
        ELSE
        LET response == m.json
            c2 == [c1 EXCEPT !.responses = Append(@, response)]
        IN  IF response.kind = "list"
            THEN [c2 EXCEPT !.pc = "raised", !.err = "AttributeError"]
            ELSE
            LET records == Get(response.body, "records", <<>>)
                next_token == Get(response.body, "next_token", Null)
            IN  IF records = <<>>
                THEN [c2 EXCEPT !.pc = "returned"]
                ELSE [c2 EXCEPT !.all_records = extend(@, records),
                                !.next_token = next_token]

\* the rest of one iteration, m being the result of _make_request.  The
\* isinstance(response, list) branch stands behind response.get, which a
\* list does not have.
paginate_step(c, m) ==
    LET c1 == [c EXCEPT !.params = loop_params(c),
                        !.requests = IF m.sent THEN Append(@, m.request) ELSE @]
    IN  IF m.err /= Null
        THEN [c1 EXCEPT !.pc = "raised", !.err = m.err]
        ELSE
        LET response == m.json
            c2 == [c1 EXCEPT !.responses = Append(@, response)]
        IN  IF response.kind = "list"
            THEN [c2 EXCEPT !.pc = "raised", !.err = "AttributeError"]
            ELSE
            LET records == Get(response.body, "records", <<>>)
                next_token == Get(response.body, "next_token", Null)
            IN  IF records = <<>> /\ Cardinality(DOMAIN response.body) > 0
                THEN [c2 EXCEPT !.pc = "returned",
                                !.all_records = Append(@, response.body)]
                ELSE
                LET c3 == [c2 EXCEPT !.all_records = extend(@, records),
                                     !.next_token = next_token]
                IN  IF Truthy(next_token) THEN c3 ELSE [c3 EXCEPT !.pc = "returned"]

(***************************************************************************)
(* The public fetches and get_all_health_data, each run to its end against *)
(* an environment env: scripts[kind] is the sequence of answers of the     *)
(* kind's endpoint, tokresp the answer of the token endpoint to every      *)
(* refresh and glat the duration of every GET.  A run state s holds the    *)
(* WhoopAuth tokens, the token file, the clock and the POSTs sent to the   *)
(* token endpoint.                                                         *)
(***************************************************************************)
Kinds == <<"recovery", "sleep", "cycles", "workouts">>

KindSet == {Kinds[i] : i \in DOMAIN Kinds}

NoEnv == [scripts |-> [kind \in KindSet |-> <<>>], tokresp |-> NoResponse, glat |-> 0]

\* the while loop of _paginate_request from frame c on
RECURSIVE paginate_loop(_, _, _, _, _)
paginate_loop(c, s, script, tokresp, glat) ==
    IF c.pc /= "loop" THEN [call |-> c, s |-> s]
    ELSE
    LET k == min(Len(c.requests) + 1, Len(script))
        m == _make_request(s.tokens, s.file, s.now, tokresp, 0, loop_params(c),
                           script[k], glat, s.client)
    IN  paginate_loop(paginate_step(c, m),
                      [tokens |-> m.auth.tokens, file |-> m.auth.file, now |-> m.now,
                       posts |-> s.posts + m.auth.posts, client |-> m.client],
                      script, tokresp, glat)

\* get_recovery_data, get_sleep_data, get_cycle_data, get_workout_data:
\* _paginate_request with the default limit
get_data(kind, s, env) ==
    paginate_loop(paginate_start(25), s, env.scripts[kind], env.tokresp, env.glat)

\* one try block without its except clause: the exception of the fetch
\* escapes and ends get_all_health_data
fetch_unguarded(acc, kind, env) ==
    IF acc.err /= Null THEN acc
    ELSE
    LET r == get_data(kind, acc.s, env)
    IN  [data |-> IF r.call.pc = "returned"
                      THEN [acc.data EXCEPT ![kind] = r.call.all_records]
                      ELSE acc.data,
         fetches |-> Append(acc.fetches, [kind |-> kind, call |-> r.call]),
         s |-> r.s,
         err |-> r.call.err]

\* one try/except block of get_all_health_data; fetches records the
\* _paginate_request call each block made
fetch(acc, kind, env) ==
    LET r == get_data(kind, acc.s, env)
    IN  [data |-> IF r.call.pc = "returned"
                      THEN [acc.data EXCEPT ![kind] = r.call.all_records]
                      ELSE acc.data,
         fetches |-> Append(acc.fetches, [kind |-> kind, call |-> r.call]),
         s |-> r.s,
         err |-> acc.err]

\* the try/except blocks for the kinds order[i], order[i+1], ...
RECURSIVE fetch_from(_, _, _, _)
fetch_from(order, i, acc, env) ==
    IF i > Len(order) THEN acc
    ELSE fetch_from(order, i + 1, fetch(acc, order[i], env), env)

get_all_health_data(tk, fl, t, cl, env) ==
    fetch_from(Kinds, 1,
               [data |-> [kind \in KindSet |-> <<>>], fetches |-> <<>>,
                s |-> [tokens |-> tk, file |-> fl, now |-> t, posts |-> 0,
                       client |-> cl],
                err |-> Null],
               env)

(***************************************************************************)
(* State machine of the token lifecycle: one WhoopAuth instance, its token *)
(* file and the clock.                                                     *)
(***************************************************************************)
NoQuery == [state |-> Null, code |-> Null, error |-> Null]

Observe(op, resp, r) ==
    [op |-> op, resp |-> resp, err |-> r.err, ret |-> r.ret,
     posts |-> r.posts, refreshes |-> r.refreshes, deletes |-> r.deletes,
     delete |-> r.delete, reply |-> r.reply, query |-> NoQuery, expected |-> Null,
     env |-> NoEnv, fetches |-> <<>>, gets |-> 0, api |-> NoApiResponse,
     instance |-> Null]

Idle(op) ==
    [op |-> op, resp |-> NoResponse, err |-> Null, ret |-> Null,
     posts |-> 0, refreshes |-> 0, deletes |-> 0,
     delete |-> Null, reply |-> Null, query |-> NoQuery, expected |-> Null,
     env |-> NoEnv, fetches |-> <<>>, gets |-> 0, api |-> NoApiResponse,
     instance |-> Null]

Init ==
    /\ now = 0
    /\ tokens = EmptyDict
    /\ token_file = NoFile
    /\ session = Null
    /\ session_state = Null
    /\ last = Idle("init")
    /\ call = NoCall
    /\ client = NoRateLimit

Tick ==
    /\ now < MaxNow
    /\ now' = now + 1
    /\ last' = Idle("tick")
    /\ UNCHANGED <<tokens, token_file, session, session_state, call, client>>

\* WhoopAuth(): a new instance loads the token file
NewInstance ==
    /\ tokens' = _load_tokens(token_file)
    /\ last' = Idle("init")
    /\ UNCHANGED <<now, token_file, session, session_state, call, client>>

\* A response is drawn only for a call that sends a POST and a latency only
\* for a call that sends a request; r0 is the call's outcome when nothing
\* answers, which tells what it sends.
Responses(all, r0) == IF r0.posts = 0 THEN {NoResponse} ELSE all

Deletes(r0) == IF r0.deletes = 0 THEN {"ok"} ELSE DeleteOutcomes

Latencies(r0) == IF r0.posts + r0.deletes = 0 THEN {0} ELSE 0..MaxLatency

Apply(resp, lat, r) ==
    /\ r.now <= MaxNow
    /\ now' = r.now
    /\ tokens' = r.tokens
    /\ token_file' = r.file

ExchangeCodeForToken ==
    \E resp \in Responses(TokenResponses,
                            exchange_code_for_token(tokens, token_file, now, NoResponse, 0)),
       lat \in Latencies(exchange_code_for_token(tokens, token_file, now, NoResponse, 0)) :
        LET r == exchange_code_for_token(tokens, token_file, now, resp, lat)
        IN  /\ Apply(resp, lat, r)
            /\ last' = Observe("exchange", resp, r)
            /\ UNCHANGED <<session, session_state, call, client>>

RefreshAccessToken ==
    \E resp \in Responses(TokenResponses,
                            refresh_access_token(tokens, token_file, now, NoResponse, 0)),
       lat \in Latencies(refresh_access_token(tokens, token_file, now, NoResponse, 0)) :
        LET r == refresh_access_token(tokens, token_file, now, resp, lat)
        IN  /\ Apply(resp, lat, r)
            /\ last' = Observe("refresh", resp, r)
            /\ UNCHANGED <<session, session_state, call, client>>

GetValidAccessToken ==
    \E resp \in Responses(TokenResponses,
                            get_valid_access_token(tokens, token_file, now, NoResponse, 0)),
       lat \in Latencies(get_valid_access_token(tokens, token_file, now, NoResponse, 0)) :
        LET r == get_valid_access_token(tokens, token_file, now, resp, lat)
        IN  /\ Apply(resp, lat, r)
            /\ last' = Observe("get_valid", resp, r)
            /\ UNCHANGED <<session, session_state, call, client>>

RevokeAccess ==
    \E del \in Deletes(revoke_access(tokens, token_file, now, "ok", 0)),
       lat \in Latencies(revoke_access(tokens, token_file, now, "ok", 0)) :
        LET r == revoke_access(tokens, token_file, now, del, lat)
        IN  /\ Apply(NoResponse, lat, r)
            /\ last' = Observe("revoke", NoResponse, r)
            /\ UNCHANGED <<session, session_state, call, client>>

IsAuthenticated ==
    /\ last' = [Idle("is_authenticated") EXCEPT
                    !.ret = IF is_authenticated(tokens) THEN "True" ELSE "False"]
    /\ UNCHANGED <<now, tokens, token_file, session, session_state, call, client>>

GenerateAuthUrl ==
    \E state \in States :
        LET r == generate_auth_url(tokens, token_file, now, state)
        IN  /\ Apply(NoResponse, 0, r)
            /\ last' = Observe("generate_auth_url", NoResponse, r)
            /\ UNCHANGED <<session, session_state, call, client>>

Next ==
    \/ Tick
    \/ NewInstance
    \/ ExchangeCodeForToken
    \/ RefreshAccessToken
    \/ GetValidAccessToken
    \/ RevokeAccess
    \/ IsAuthenticated
    \/ GenerateAuthUrl

Spec == Init /\ [][Next]_vars

(***************************************************************************)
(* The web handlers: the Flask routes of auth_server.py, which share the   *)
(* module-level WhoopAuth instance, and the Streamlit functions of         *)
(* streamlit_oauth.py, each of which constructs a WhoopAuth of its own.    *)
(* A query parameter or session entry that is not there is Null.           *)
(***************************************************************************)
Queries == [state : States \cup {Null}, code : {"c1", Null}, error : {"access_denied", Null}]

WebResponses ==
    {r \in TokenResponses :
        /\ r.reached
        /\ \/ r.status = 400
           \/ /\ r.json
              /\ DOMAIN r.body = {"access_token", "refresh_token"}
              /\ r.body["refresh_token"] /= Null}

Reply(r, text) == [r EXCEPT !.reply = text]

\* auth_server.callback
callback(tk, fl, t, sess, q, resp, lat) ==
    IF q.state /= sess
        THEN Reply(Outcome(tk, fl, t, Null, Null, 0, 0), "Error: Invalid state parameter")
    ELSE IF Truthy(q.error)
        THEN Reply(Outcome(tk, fl, t, Null, Null, 0, 0), "Error: error")
    ELSE IF ~Truthy(q.code)
        THEN Reply(Outcome(tk, fl, t, Null, Null, 0, 0),
                   "Error: No authorization code received")
    ELSE LET r == exchange_code_for_token(tk, fl, t, resp, lat)
         IN  IF r.err /= Null
                 THEN Reply([r EXCEPT !.err = Null], "Error exchanging code for token")
                 ELSE Reply(r, "redirect /")

\* streamlit_oauth.handle_oauth_flow; after a successful exchange the script
\* is rerun without query parameters and returns is_authenticated()
handle_oauth_flow(fl, t, sess, q, resp, lat) ==
    LET tk == _load_tokens(fl)
        Bool(b) == IF b THEN "True" ELSE "False"
    IN  IF q.code /= Null
        THEN IF sess /= Null /\ q.state /= sess
             THEN Reply(Outcome(tk, fl, t, Null, "False", 0, 0),
                        "Invalid OAuth state. Please try again.")
             ELSE LET r == exchange_code_for_token(tk, fl, t, resp, lat)
                  IN  IF r.err /= Null
                      THEN Reply([r EXCEPT !.err = Null, !.ret = "False"],
                                 "Authentication error")
                      ELSE Reply([r EXCEPT !.ret = Bool(is_authenticated(r.tokens))],
                                 "Successfully authenticated with Whoop!")
        ELSE Outcome(tk, fl, t, Null, Bool(is_authenticated(tk)), 0, 0)

\* the effect of an operation made on another WhoopAuth instance than the
\* module-level auth of auth_server: the clock and the token file
ApplyElsewhere(r) ==
    /\ r.now <= MaxNow
    /\ now' = r.now
    /\ token_file' = r.file
    /\ UNCHANGED tokens

\* auth_server.login
Login ==
    /\ session' \in States
    /\ last' = Idle("login")
    /\ UNCHANGED <<now, tokens, token_file, session_state, call, client>>

\* streamlit_oauth.show_login_button, on a WhoopAuth instance of its own
ShowLoginButton ==
    /\ session_state' \in States
    /\ last' = [Idle("show_login_button") EXCEPT !.instance = "show_login_button.auth"]
    /\ UNCHANGED <<now, tokens, token_file, session, call, client>>

Callback ==
    \E q \in Queries :
    \E resp \in Responses(WebResponses \cup {NoResponse},
                           callback(tokens, token_file, now, session, q, NoResponse, 0)),
       lat \in Latencies(callback(tokens, token_file, now, session, q, NoResponse, 0)) :
        LET r == callback(tokens, token_file, now, session, q, resp, lat)
        IN  /\ Apply(resp, lat, r)
            /\ last' = [Observe("callback", resp, r) EXCEPT
                            !.query = q, !.expected = session,
                            !.instance = "auth_server.auth"]
            /\ UNCHANGED <<session, session_state, call, client>>

HandleOAuthFlow ==
    \E q \in Queries :
    \E resp \in Responses(WebResponses \cup {NoResponse},
                           handle_oauth_flow(token_file, now, session_state, q, NoResponse, 0)),
       lat \in Latencies(handle_oauth_flow(token_file, now, session_state, q, NoResponse, 0)) :
        LET r == handle_oauth_flow(token_file, now, session_state, q, resp, lat)
        IN  /\ ApplyElsewhere(r)
            /\ last' = [Observe("handle_oauth_flow", resp, r) EXCEPT
                            !.query = q, !.expected = session_state,
                            !.instance = "handle_oauth_flow.auth"]
            /\ UNCHANGED <<session, session_state, call, client>>

\* auth_server.logout
Logout ==
    \E del \in Deletes(revoke_access(tokens, token_file, now, "ok", 0)),
       lat \in Latencies(revoke_access(tokens, token_file, now, "ok", 0)) :
        LET r == revoke_access(tokens, token_file, now, del, lat)
        IN  /\ Apply(NoResponse, lat, r)
            /\ last' = [Observe("logout", NoResponse, r) EXCEPT
                            !.instance = "auth_server.auth"]
            /\ session' = Null
            /\ UNCHANGED <<session_state, call, client>>

\* streamlit_oauth.show_logout_button, button pressed
ShowLogoutButton ==
    \E del \in Deletes(revoke_access(_load_tokens(token_file), token_file, now, "ok", 0)),
       lat \in Latencies(revoke_access(_load_tokens(token_file), token_file, now, "ok", 0)) :
        LET r == revoke_access(_load_tokens(token_file), token_file, now, del, lat)
        IN  /\ ApplyElsewhere(r)
            /\ last' = [Observe("show_logout_button", NoResponse, r) EXCEPT
                            !.instance = "show_logout_button.auth"]
            /\ session_state' = Null
            /\ UNCHANGED <<session, call, client>>

NextWeb ==
    \/ Tick
    \/ Login
    \/ ShowLoginButton
    \/ Callback
    \/ HandleOAuthFlow
    \/ Logout
    \/ ShowLogoutButton

SpecWeb == Init /\ [][NextWeb]_vars

(***************************************************************************)
(* State machine of the API client: one WhoopAuth instance, one            *)
(* WhoopClient on it, and the resource API answering page by page.  The    *)
(* program is single-threaded, so only the clock moves while a             *)
(* _paginate_request call is in its loop.                                  *)
(***************************************************************************)
MaxPages == 3
MaxPageSize == 2

\* values of the limit argument
Limits == {10, 50}

\* token-endpoint answers seen by the client: a rejection, or a grant of an
\* access token and a refresh token that lasts 301 seconds
ClientTokenResponses ==
    {r \in TokenResponses :
        /\ r.reached
        /\ \/ r.status = 400
           \/ /\ r.json
              /\ DOMAIN r.body = {"access_token", "refresh_token", "expires_in"}
              /\ r.body["refresh_token"] = "rt1"
              /\ r.body["expires_in"] = 301}

\* the k-th record page of the provider and its continuation token
Records(k, n) == [i \in 1..n |-> [page |-> k, idx |-> i]]

Cursor(k) == IF k % 2 = 1 THEN "n1" ELSE "n2"

DictBody(rs, nt) ==
    [key \in (IF rs = {} THEN {} ELSE {"records"})
                \cup (IF nt = {} THEN {} ELSE {"next_token"}) |->
        IF key = "records" THEN CHOOSE v \in rs : TRUE ELSE CHOOSE v \in nt : TRUE]

\* a resource returned directly, without a records envelope
BareObject == ("user_id" :> "u1")

\* what the resource API may answer to the k-th request of a call
ApiResponses(k) ==
    {[status |-> 200, kind |-> "dict", body |-> b, items |-> <<>>,
      headers |-> ProviderHeaders(200)] :
        b \in {DictBody(rs, nt) : rs \in Opt({Records(k, n) : n \in 0..MaxPageSize}),
                                  nt \in Opt({Cursor(k), Null})}
              \cup {BareObject}}
    \cup {[status |-> 200, kind |-> "list", body |-> EmptyDict, items |-> Records(k, n),
           headers |-> ProviderHeaders(200)] :
            n \in 0..MaxPageSize}
    \cup {[status |-> s, kind |-> "dict", body |-> EmptyDict, items |-> <<>>,
           headers |-> ProviderHeaders(s)] :
            s \in {429, 500}}

\* the OAuth flow completes (or fails) before the client is used
Authorize ==
    /\ call.pc = "idle"
    /\ \E resp \in ClientTokenResponses, lat \in 0..MaxLatency :
        LET r == exchange_code_for_token(tokens, token_file, now, resp, lat)
        IN  /\ Apply(resp, lat, r)
            /\ last' = Observe("exchange", resp, r)
            /\ UNCHANGED <<session, session_state, call, client>>

PaginateStart ==
    /\ call.pc /= "loop"
    /\ \E limit \in Limits : call' = paginate_start(limit)
    /\ last' = Idle("paginate")
    /\ UNCHANGED <<now, tokens, token_file, session, session_state, client>>

\* one iteration of the while loop
PaginateStep ==
    /\ call.pc = "loop"
    /\ LET params == loop_params(call)
           m0 == _make_request(tokens, token_file, now, NoResponse, 0, params,
                               NoApiResponse, 0, client)
       IN  \E tokresp \in Responses(ClientTokenResponses, m0.auth),
              lat \in Latencies(m0.auth),
              api \in ApiResponses(Len(call.requests) + 1) \cup {NoApiResponse},
              glat \in 0..MaxLatency :
            \E m \in {_make_request(tokens, token_file, now, tokresp, lat, params,
                                    api, glat, client)} :
                /\ m.sent <=> api /= NoApiResponse
                /\ ~m.sent => glat = 0
                /\ m.now <= MaxNow
                /\ now' = m.now
                /\ tokens' = m.auth.tokens
                /\ token_file' = m.auth.file
                /\ call' = paginate_step(call, m)
                /\ call'.pc = "loop" => Len(call'.requests) < MaxPages
                /\ last' = [Observe("request", tokresp, m.auth) EXCEPT
                                !.err = m.err, !.gets = m.gets, !.api = api]
                /\ client' = m.client
                /\ UNCHANGED <<session, session_state>>

NextClient ==
    \/ Tick
    \/ Authorize
    \/ PaginateStart
    \/ PaginateStep

SpecClient == Init /\ [][NextClient]_vars

\* a call that is in its loop goes on: the interpreter runs the next iteration
SpecClientFair == SpecClient /\ WF_vars(PaginateStep)

(***************************************************************************)
(* State machine of get_all_health_data: one WhoopAuth instance, one       *)
(* WhoopClient on it, and an API whose answers per kind are fixed for the  *)
(* duration of a call.                                                     *)
(***************************************************************************)
Page(k, n, nt) == [status |-> 200, kind |-> "dict", body |-> DictBody({Records(k, n)}, nt),
                   items |-> <<>>, headers |-> ProviderHeaders(200)]

\* answers of one endpoint: one page; two pages; HTTP 500; a bare array
OnePage == <<Page(1, 1, {})>>

TwoPages == <<Page(1, 2, {Cursor(1)}), Page(2, 1, {Null})>>

Failing == <<[status |-> 500, kind |-> "dict", body |-> EmptyDict, items |-> <<>>,
              headers |-> ProviderHeaders(500)]>>

BareArray == <<[status |-> 200, kind |-> "list", body |-> EmptyDict, items |-> Records(1, 1),
                headers |-> ProviderHeaders(200)]>>

\* each endpoint either serves its records or fails
FetchScripts(kind) ==
    CASE kind = "recovery" -> {OnePage, Failing}
      [] kind = "sleep"    -> {TwoPages, Failing}
      [] kind = "cycles"   -> {OnePage, BareArray}
      [] kind = "workouts" -> {TwoPages, Failing}

Envs ==
    {env \in [scripts : [KindSet -> {OnePage, TwoPages, Failing, BareArray}],
              tokresp : ClientTokenResponses, glat : 0..MaxLatency] :
        \A kind \in KindSet : env.scripts[kind] \in FetchScripts(kind)}

GetAllHealthData ==
    \E env \in Envs :
        \E r \in {get_all_health_data(tokens, token_file, now, client, env)} :
            /\ r.s.now <= MaxNow
            /\ now' = r.s.now
            /\ tokens' = r.s.tokens
            /\ token_file' = r.s.file
            /\ last' = [Idle("get_all_health_data") EXCEPT
                            !.err = r.err, !.ret = r.data, !.posts = r.s.posts,
                            !.env = env, !.fetches = r.fetches]
            /\ client' = r.s.client
            /\ UNCHANGED <<session, session_state, call>>

NextAll ==
    \/ Tick
    \/ Authorize
    \/ GetAllHealthData

SpecAll == Init /\ [][NextAll]_vars

(***************************************************************************)
(* State machine of the token lifecycle seen from the client: the          *)
(* operations of one WhoopAuth instance and single requests of the         *)
(* WhoopClient built on it.                                                *)
(***************************************************************************)
\* what the resource API may answer to a single request
RequestResponses ==
    {[status |-> 200, kind |-> "dict", body |-> BareObject, items |-> <<>>,
      headers |-> h] : h \in {ProviderHeaders(200), NoHeaders}}
    \cup {[status |-> 429, kind |-> "dict", body |-> EmptyDict, items |-> <<>>,
           headers |-> [remaining |-> "0", reset |-> Null]]}
    \cup {[status |-> 500, kind |-> "dict", body |-> EmptyDict, items |-> <<>>,
           headers |-> NoHeaders]}

\* WhoopClient._make_request
MakeRequest ==
    LET m0 == _make_request(tokens, token_file, now, NoResponse, 0, EmptyDict,
                            NoApiResponse, 0, client)
    IN  \E tokresp \in Responses(ClientTokenResponses, m0.auth),
           lat \in Latencies(m0.auth),
           api \in RequestResponses \cup {NoApiResponse},
           glat \in 0..MaxLatency :
         \E m \in {_make_request(tokens, token_file, now, tokresp, lat, EmptyDict,
                                 api, glat, client)} :
             /\ m.sent <=> api /= NoApiResponse
             /\ ~m.sent => glat = 0
             /\ m.now <= MaxNow
             /\ now' = m.now
             /\ tokens' = m.auth.tokens
             /\ token_file' = m.auth.file
             /\ last' = [Observe("request", tokresp, m.auth) EXCEPT
                             !.err = m.err, !.gets = m.gets, !.api = api]
             /\ client' = m.client
             /\ UNCHANGED <<session, session_state, call>>

NextApi ==
    \/ Tick
    \/ NewInstance
    \/ ExchangeCodeForToken
    \/ RefreshAccessToken
    \/ GetValidAccessToken
    \/ RevokeAccess
    \/ IsAuthenticated
    \/ GenerateAuthUrl
    \/ MakeRequest

SpecApi == Init /\ [][NextApi]_vars

(***************************************************************************)
(* _save_tokens step by step, with crashes.  open(self.token_file, 'w')    *)
(* truncates the file, json.dump then writes the document and the with     *)
(* block closes the file; the process can die between the two.  call.pc is *)
(* "idle" when no save is under way, "open" between the open and the       *)
(* dump, "down" when the process is dead.                                  *)
(***************************************************************************)
\* the file as open(..., 'w') leaves it: there, with no content.  Every
\* TokenSet that is saved holds an access token, so the content of a saved
\* file is never empty.
Truncated == [exists |-> TRUE, content |-> <<>>]

Mutations == {"exchange", "refresh"}

Mutation(op, tk, fl, t, resp, lat) ==
    IF op = "exchange" THEN exchange_code_for_token(tk, fl, t, resp, lat)
    ELSE refresh_access_token(tk, fl, t, resp, lat)

\* exchange_code_for_token or refresh_access_token up to the open() of
\* _save_tokens; a call that raises before _save_tokens is complete
SaveOpen ==
    /\ call.pc = "idle"
    /\ \E op \in Mutations :
       \E resp \in Responses(TokenResponses,
                               Mutation(op, tokens, token_file, now, NoResponse, 0)),
          lat \in Latencies(Mutation(op, tokens, token_file, now, NoResponse, 0)) :
        \E r \in {Mutation(op, tokens, token_file, now, resp, lat)} :
            /\ r.now <= MaxNow
            /\ now' = r.now
            /\ tokens' = r.tokens
            /\ token_file' = IF r.err = Null THEN Truncated ELSE r.file
            /\ call' = [NoCall EXCEPT !.pc = IF r.err = Null THEN "open" ELSE "idle"]
            /\ last' = Observe(op, resp, r)
            /\ UNCHANGED <<session, session_state, client>>

\* json.dump(self.tokens, f, indent=2) and the close of the file
SaveDump ==
    /\ call.pc = "open"
    /\ token_file' = _save_tokens(tokens)
    /\ call' = NoCall
    /\ last' = Idle("_save_tokens")
    /\ UNCHANGED <<now, tokens, session, session_state, client>>

\* the process dies: the instance is gone, the file stays as it is
Crash ==
    /\ call.pc \in {"idle", "open"}
    /\ tokens' = EmptyDict
    /\ call' = [NoCall EXCEPT !.pc = "down"]
    /\ last' = Idle("crash")
    /\ UNCHANGED <<now, token_file, session, session_state, client>>

\* the process starts again: WhoopAuth() loads the file; json.load of an
\* empty file raises and no instance is constructed
Restart ==
    /\ call.pc = "down"
    /\ IF token_file = Truncated
          THEN /\ last' = [Idle("init") EXCEPT !.err = "JSONDecodeError"]
               /\ UNCHANGED <<tokens, call>>
          ELSE /\ tokens' = _load_tokens(token_file)
               /\ call' = NoCall
               /\ last' = Idle("init")
    /\ UNCHANGED <<now, token_file, session, session_state, client>>

NextCrash ==
    \/ Tick
    \/ SaveOpen
    \/ SaveDump
    \/ Crash
    \/ Restart

SpecCrash == Init /\ [][NextCrash]_vars

(***************************************************************************)
(* Vocabulary of the claims.                                               *)
(***************************************************************************)
HasAccessToken(tk) == Truthy(Get(tk, "access_token", Null))

HasRefreshToken(tk) == Truthy(Get(tk, "refresh_token", Null))

\* now < expires_at - 5 minutes
Fresh(tk, t) == t < fromisoformat(tk["expires_at"]) - 5 * 60

Is2xx(resp) == resp.reached /\ resp.status \in 200..299

\* a 2xx response that carries a JSON object with an access token
IsGrant(resp) == Is2xx(resp) /\ resp.json /\ "access_token" \in DOMAIN resp.body

ExpiresInOf(body) == IF "expires_in" \in DOMAIN body THEN body["expires_in"] ELSE 3600

Persisted(tk) == token_file.exists /\ json_load(token_file.content) = tk

StateMismatchError(l) ==
    l.reply \in {"Error: Invalid state parameter", "Invalid OAuth state. Please try again."}

\* the Flask route is the callback; handle_oauth_flow treats a request that
\* carries a code as the callback
IsCallback(l) ==
    l.op = "callback" \/ (l.op = "handle_oauth_flow" /\ l.query.code /= Null)

\* a response that is an object with a non-empty records array
IsPage(r) ==
    /\ r.kind = "dict"
    /\ "records" \in DOMAIN r.body
    /\ Len(r.body["records"]) >= 1

HasContinuation(r) ==
    "next_token" \in DOMAIN r.body /\ r.body["next_token"] \notin {Null, ""}

\* the records of a sequence of pages, page after page
RECURSIVE Concatenation(_)
Concatenation(pages) ==
    IF pages = <<>> THEN <<>>
    ELSE Head(pages).body["records"] \o Concatenation(Tail(pages))

\* a _paginate_request call that raised because get_valid_access_token
\* raised: no GET was sent in its last iteration
AuthFailed(c) ==
    /\ c.pc = "raised"
    /\ c.err /= "AttributeError"
    /\ Len(c.requests) = Len(c.responses)

\* an operation of a web flow that performed an exchange or a revoke
Mutating(l) ==
    \/ l.posts >= 1
    \/ l.op \in {"logout", "show_logout_button"}

(***************************************************************************)
(* C1 (as stated): get_valid_access_token on a TokenSet with an access     *)
(* token makes no network call and leaves the TokenSet unchanged when      *)
(* now < expires_at - 5 min, and sends exactly one POST to the token       *)
(* endpoint when now >= expires_at - 5 min.                                *)
(***************************************************************************)
C1_ExactlyOnePostWhenStale ==
    [][(last'.op = "get_valid" /\ HasAccessToken(tokens)) =>
          IF Fresh(tokens, now)
          THEN last'.posts = 0 /\ tokens' = tokens /\ token_file' = token_file
          ELSE last'.posts = 1]_vars

(***************************************************************************)
(* C1 (amended): when fresh, no refresh call, no POST and nothing changes; *)
(* when stale, refresh is called exactly once, and it sends exactly one    *)
(* POST when the TokenSet holds a refresh token and none when it does not. *)
(***************************************************************************)
C1_RefreshOnceWhenStale ==
    [][(last'.op = "get_valid" /\ HasAccessToken(tokens)) =>
          IF Fresh(tokens, now)
          THEN /\ last'.posts = 0 /\ last'.refreshes = 0
               /\ tokens' = tokens /\ token_file' = token_file
          ELSE /\ last'.refreshes = 1
               /\ last'.posts = IF HasRefreshToken(tokens) THEN 1 ELSE 0]_vars

C1_Witness ==
    last.op = "get_valid" /\ last.refreshes = 1 /\ last.posts = 1 /\ last.err = Null

(***************************************************************************)
(* C2: whenever get_valid_access_token returns, the returned string is the *)
(* stored access token and now < expires_at - 5 minutes.                   *)
(***************************************************************************)
C2_ReturnedTokenGoodForFiveMinutes ==
    (last.op = "get_valid" /\ last.err = Null) =>
        /\ last.ret = tokens["access_token"]
        /\ Fresh(tokens, now)

(***************************************************************************)
(* C3: when the refresh triggered inside get_valid_access_token fails, the *)
(* failure reaches the caller and no access token is returned.             *)
(***************************************************************************)
C3_FailedRefreshPropagates ==
    (last.op = "get_valid" /\ last.refreshes = 1
        /\ (last.posts = 0 \/ ~IsGrant(last.resp))) =>
        last.err /= Null /\ last.ret = Null

C3_Witness ==
    /\ last.op = "get_valid" /\ last.refreshes = 1 /\ last.posts = 1
    /\ last.resp.reached /\ last.resp.status = 400
    /\ HasAccessToken(tokens)

(***************************************************************************)
(* C4: a successful refresh whose response omits refresh_token keeps the   *)
(* prior refresh token; one whose response includes it stores that one.    *)
(***************************************************************************)
C4_RefreshTokenKeptOrReplaced ==
    [][(last'.refreshes = 1 /\ last'.err = Null) =>
          tokens'["refresh_token"] =
              IF "refresh_token" \in DOMAIN last'.resp.body
              THEN last'.resp.body["refresh_token"]
              ELSE tokens["refresh_token"]]_vars

C4_Witness ==
    /\ last.op = "refresh" /\ last.err = Null
    /\ "refresh_token" \notin DOMAIN last.resp.body
    /\ tokens["refresh_token"] = "rt2"

C7_MismatchIffStatesDiffer ==
    IsCallback(last) =>
        /\ StateMismatchError(last) <=> (last.query.state /= last.expected)
        /\ StateMismatchError(last) => last.posts = 0
        /\ (last.query.state /= last.expected) => last.posts = 0

(***************************************************************************)
(* C8: a successful code exchange stores exactly the new grant, with       *)
(* expires_at = acquisition time + expires_in (3600 when absent) and no    *)
(* field of the prior TokenSet, and persists it.                           *)
(***************************************************************************)
C8_ExchangeOverwrites ==
    (last.op = "exchange" /\ last.err = Null) =>
        LET body == last.resp.body
        IN  /\ DOMAIN tokens = {"access_token", "refresh_token", "expires_at", "token_type"}
            /\ tokens["access_token"] = body["access_token"]
            /\ tokens["refresh_token"] =
                  IF "refresh_token" \in DOMAIN body THEN body["refresh_token"] ELSE Null
            /\ fromisoformat(tokens["expires_at"]) = now + ExpiresInOf(body)
            /\ tokens["token_type"] =
                  IF "token_type" \in DOMAIN body THEN body["token_type"] ELSE "Bearer"
            /\ Persisted(tokens)

C8_Witness ==
    /\ last.op = "exchange" /\ last.err = Null
    /\ "expires_in" \in DOMAIN last.resp.body
    /\ "refresh_token" \notin DOMAIN last.resp.body
    /\ now > 0

(***************************************************************************)
(* C9: a successful refresh stores the provider's access token, sets       *)
(* expires_at = time of the refresh + expires_in (3600 when absent), sets  *)
(* token_type to the provider's value ("Bearer" when absent) and persists  *)
(* the result.                                                             *)
(***************************************************************************)
C9_RefreshOverwrites ==
    (last.refreshes = 1 /\ last.err = Null) =>
        LET body == last.resp.body
        IN  /\ tokens["access_token"] = body["access_token"]
            /\ fromisoformat(tokens["expires_at"]) = now + ExpiresInOf(body)
            /\ tokens["token_type"] =
                  IF "token_type" \in DOMAIN body THEN body["token_type"] ELSE "Bearer"
            /\ Persisted(tokens)

C9_Witness ==
    /\ last.op = "refresh" /\ last.err = Null
    /\ "token_type" \notin DOMAIN last.resp.body
    /\ "expires_in" \notin DOMAIN last.resp.body
    /\ tokens["token_type"] = "Bearer"

C11_RevokeAlwaysClears ==
    (last.op = "revoke") =>
        /\ tokens = EmptyDict
        /\ ~token_file.exists
        /\ last.err = Null

C11_Witness ==
    /\ last.op = "revoke" /\ last.deletes = 1
    /\ last.delete = "connection_error"
    /\ tokens = EmptyDict /\ ~token_file.exists

(***************************************************************************)
(* C12: refresh_access_token on a TokenSet without a refresh token fails   *)
(* with the no-refresh-token error, sends no request and changes neither   *)
(* the TokenSet nor the token file.                                        *)
(***************************************************************************)
C12_RefreshWithoutRefreshToken ==
    [][(last'.op = "refresh"
            /\ ("refresh_token" \notin DOMAIN tokens
                    \/ tokens["refresh_token"] \in {Null, ""})) =>
          /\ last'.err = "ValueError: No refresh token available"
          /\ last'.posts = 0
          /\ tokens' = tokens
          /\ token_file' = token_file]_vars

C12_Witness ==
    /\ last.op = "refresh"
    /\ last.err = "ValueError: No refresh token available"
    /\ HasAccessToken(tokens) /\ tokens["refresh_token"] = Null

(***************************************************************************)
(* C13: get_valid_access_token on a TokenSet without an access token fails *)
(* with the not-authenticated error, attempts no refresh, sends no request *)
(* and changes no state.                                                   *)
(***************************************************************************)
C13_GetValidWithoutAccessToken ==
    [][(last'.op = "get_valid"
            /\ ("access_token" \notin DOMAIN tokens
                    \/ tokens["access_token"] \in {Null, ""})) =>
          /\ last'.err = "ValueError: No access token available"
          /\ last'.posts = 0 /\ last'.refreshes = 0
          /\ tokens' = tokens
          /\ token_file' = token_file
          /\ now' = now]_vars

C13_Witness ==
    /\ last.op = "get_valid"
    /\ last.err = "ValueError: No access token available"
    /\ last.posts = 0

(***************************************************************************)
(* C14: after every completed mutation (a successful exchange, a           *)
(* successful refresh, a revoke) the token file holds exactly the fields   *)
(* of the in-memory TokenSet, and there is no file exactly when the        *)
(* TokenSet is empty.                                                      *)
(***************************************************************************)
C14_PersistedEqualsInMemory ==
    (/\ last.op \in {"exchange", "refresh", "get_valid", "revoke"}
     /\ last.err = Null
     /\ last.op = "get_valid" => last.refreshes = 1) =>
        /\ token_file.exists <=> tokens /= EmptyDict
        /\ token_file.exists =>
              /\ {token_file.content[i][1] : i \in 1..Len(token_file.content)}
                    = DOMAIN tokens
              /\ \A i \in 1..Len(token_file.content) :
                    token_file.content[i][2] = tokens[token_file.content[i][1]]

C14_Witness ==
    /\ last.op = "get_valid" /\ last.refreshes = 1 /\ last.err = Null
    /\ token_file.exists /\ tokens["access_token"] = "at2"

(***************************************************************************)
(* C15: a new WhoopAuth instance that loads the file saved by exchange or  *)
(* refresh holds a TokenSet with the same access_token, refresh_token,     *)
(* expires_at and token_type, hence reports the same is_authenticated and  *)
(* the same expiry.                                                        *)
(***************************************************************************)
C15_SaveLoadRoundTrip ==
    [][(last'.op = "init" /\ tokens /= EmptyDict) =>
          /\ DOMAIN tokens' = DOMAIN tokens
          /\ \A k \in DOMAIN tokens : tokens'[k] = tokens[k]
          /\ is_authenticated(tokens') = is_authenticated(tokens)
          /\ fromisoformat(tokens'["expires_at"]) = fromisoformat(tokens["expires_at"])
          /\ \A resp \in TokenResponses :
                LET g1 == get_valid_access_token(tokens', token_file', now', resp, 0)
                    g0 == get_valid_access_token(tokens, token_file', now', resp, 0)
                IN  g1.ret = g0.ret /\ g1.err = g0.err]_vars

C15_Witness ==
    /\ last.op = "init" /\ tokens /= EmptyDict
    /\ last.posts = 0
    /\ tokens["refresh_token"] = Null /\ tokens["token_type"] = "MAC"

(***************************************************************************)
(* C16: is_authenticated returns true exactly when the access token and    *)
(* the refresh token are both present and non-empty, whatever expires_at   *)
(* is; it changes no state and sends no request.                           *)
(***************************************************************************)
C16_IsAuthenticatedIffBothTokens ==
    [][(last'.op = "is_authenticated") =>
          /\ last'.ret = "True" <=>
                /\ "access_token" \in DOMAIN tokens
                /\ tokens["access_token"] \notin {Null, ""}
                /\ "refresh_token" \in DOMAIN tokens
                /\ tokens["refresh_token"] \notin {Null, ""}
          /\ last'.posts = 0 /\ last'.deletes = 0
          /\ tokens' = tokens /\ token_file' = token_file /\ now' = now]_vars

\* true although the access token is past its refresh margin
C16_Witness ==
    /\ last.op = "is_authenticated" /\ last.ret = "True"
    /\ ~Fresh(tokens, now)

(***************************************************************************)
(* C17: generate_auth_url leaves the TokenSet and the token file as they   *)
(* are and sends no request, from every state.                             *)
(***************************************************************************)
C17_GenerateAuthUrlNoSideEffect ==
    [][(last'.op = "generate_auth_url") =>
          /\ tokens' = tokens
          /\ token_file' = token_file
          /\ last'.posts = 0 /\ last'.deletes = 0]_vars

C17_Witness ==
    /\ last.op = "generate_auth_url" /\ last.ret = "s2"
    /\ HasAccessToken(tokens) /\ token_file.exists

(***************************************************************************)
(* C18: the CSRF state is single-use: a callback processed against a       *)
(* stored state, whether it succeeds or fails, discards the stored state,  *)
(* and a following callback that presents the same state value again is    *)
(* rejected with the state-mismatch error and performs no exchange.        *)
(***************************************************************************)
C18_StateSingleUse ==
    [][/\ (last'.op = "callback" /\ session /= Null) => session' = Null
       /\ (last'.op = "handle_oauth_flow" /\ last'.query.code /= Null
                /\ session_state /= Null) => session_state' = Null
       /\ (/\ IsCallback(last) /\ IsCallback(last')
           /\ last.op = last'.op
           /\ last.expected /= Null
           /\ last.query.state = last.expected
           /\ last'.query.state = last.query.state) =>
              StateMismatchError(last') /\ last'.posts = 0]_vars

(***************************************************************************)
(* C19: a _paginate_request call that returned after the provider served   *)
(* only objects with a non-empty records array went on after every page    *)
(* that carried a continuation token and stopped at the first page without *)
(* one; its result is the concatenation of the pages' records in arrival   *)
(* order, and it sent exactly one request per page.                        *)
(***************************************************************************)
C19_PaginateConcatenatesPages ==
    (/\ call.pc = "returned"
     /\ \A k \in 1..Len(call.responses) : IsPage(call.responses[k])) =>
        LET N == Len(call.responses)
        IN  /\ N >= 1
            /\ \A k \in 1..(N - 1) : HasContinuation(call.responses[k])
            /\ ~HasContinuation(call.responses[N])
            /\ call.all_records = Concatenation(call.responses)
            /\ Len(call.all_records) >= N
            /\ Len(call.requests) = N

\* pages of 2, 2 and 1 records: 5 records with 3 requests
C19_Witness ==
    /\ call.pc = "returned"
    /\ Len(call.requests) = 3
    /\ \A k \in 1..3 : IsPage(call.responses[k])
    /\ Len(call.responses[1].body["records"]) = 2
    /\ Len(call.responses[3].body["records"]) = 1
    /\ call.all_records = <<[page |-> 1, idx |-> 1], [page |-> 1, idx |-> 2],
                            [page |-> 2, idx |-> 1], [page |-> 2, idx |-> 2],
                            [page |-> 3, idx |-> 1]>>

(***************************************************************************)
(* C20: when the provider answers the request of a _paginate_request call  *)
(* with a bare array, the call returns the array's elements as its whole   *)
(* result after that one request and raises nothing.                       *)
(***************************************************************************)
C20_BareArrayIsWholeResult ==
    (/\ Len(call.responses) = 1
     /\ call.responses[1].kind = "list") =>
        /\ call.pc = "returned"
        /\ call.err = Null
        /\ call.all_records = call.responses[1].items
        /\ Len(call.requests) = 1

(***************************************************************************)
(* C21: get_all_health_data isolates its four fetches: whatever subset of  *)
(* them fails, it raises nothing, its result has exactly the keys          *)
(* recovery, sleep, cycles and workouts, each kind whose fetch raised maps *)
(* to the empty list, and every other kind maps to the records its own     *)
(* fetch returned.                                                         *)
(***************************************************************************)
C21_FetchesIsolated ==
    (last.op = "get_all_health_data") =>
        /\ last.err = Null
        /\ DOMAIN last.ret = {"recovery", "sleep", "cycles", "workouts"}
        /\ Len(last.fetches) = 4
        /\ {last.fetches[i].kind : i \in 1..4} = DOMAIN last.ret
        /\ \A i \in 1..Len(last.fetches) :
              LET f == last.fetches[i]
              IN  /\ f.call.pc \in {"returned", "raised"}
                  /\ f.call.pc = "raised" => last.ret[f.kind] = <<>>
                  /\ f.call.pc = "returned" => last.ret[f.kind] = f.call.all_records

\* the sleep fetch fails with an HTTP error, the three others return records
C21_Witness ==
    /\ last.op = "get_all_health_data"
    /\ \E i \in 1..Len(last.fetches) :
          /\ last.fetches[i].kind = "sleep"
          /\ last.fetches[i].call.err = "HTTPError"
          /\ Len(last.fetches[i].call.requests) = 1
    /\ last.ret["sleep"] = <<>>
    /\ last.ret["recovery"] = <<[page |-> 1, idx |-> 1]>>
    /\ last.ret["cycles"] = <<[page |-> 1, idx |-> 1]>>
    /\ Len(last.ret["workouts"]) = 3

(***************************************************************************)
(* C22: when token acquisition fails during a client operation, the error  *)
(* reaches the caller: the _paginate_request call raises the error of      *)
(* get_valid_access_token, and a get_all_health_data call in which a fetch *)
(* failed that way raises too instead of returning a normal result.        *)
(***************************************************************************)
C22_AuthFailureReachesCaller ==
    (last.op = "get_all_health_data") =>
        \A i \in 1..Len(last.fetches) :
            AuthFailed(last.fetches[i].call) =>
                /\ last.fetches[i].call.err \in
                      {"ValueError: No access token available",
                       "ValueError: No refresh token available",
                       "HTTPError", "ConnectionError", "JSONDecodeError", "KeyError"}
                /\ last.err /= Null

C24_LimitClamped ==
    \A k \in 1..Len(call.requests) :
        /\ "limit" \in DOMAIN call.requests[k].params
        /\ call.requests[k].params["limit"] <= 25
        /\ call.requests[k].params["limit"] = call.requests[1].params["limit"]
        /\ call.requests[k].params["limit"] = call.params["limit"]

\* a call with limit argument 50 that sent its third request
C24_Witness ==
    /\ Len(call.requests) = 3
    /\ call.requests[3].params["limit"] = 25
    /\ call.requests[3].params["nextToken"] = "n2"

(***************************************************************************)
(* C25: a _paginate_request call sends no request after a response that    *)
(* lacks a continuation token, and, the provider serving at most MaxPages  *)
(* pages with a token, every call that entered its loop ends by returning  *)
(* or raising.                                                             *)
(***************************************************************************)
C25_PaginateTerminates ==
    /\ [](\A k \in 1..Len(call.responses) :
              k < Len(call.requests) => HasContinuation(call.responses[k]))
    /\ [](Len(call.requests) <= MaxPages)
    /\ (call.pc = "loop") ~> (call.pc \in {"returned", "raised"})

\* a call that ended on its last page after following two tokens
C25_Witness ==
    /\ call.pc = "returned"
    /\ Len(call.requests) = 3 /\ Len(call.responses) = 3
    /\ HasContinuation(call.responses[2])
    /\ ~HasContinuation(call.responses[3])

(***************************************************************************)
(* C26: one WhoopAuth instance owns the TokenSet and is the only writer of *)
(* the token file: over the login, callback and logout flows the           *)
(* long-lived instance always holds what the file holds (no other instance *)
(* has replaced or cleared it), and an exchange or revoke is never         *)
(* followed by an exchange or revoke made by another instance.             *)
(***************************************************************************)
C26_SingleOwner ==
    /\ [](tokens = _load_tokens(token_file))
    /\ [][(Mutating(last) /\ Mutating(last')) =>
              last'.instance = last.instance]_vars

(***************************************************************************)
(* C27: a mutation overwrites the token file atomically: at every step,    *)
(* a crash between two steps of _save_tokens included, the file holds      *)
(* either what it held before (the complete previous TokenSet) or the      *)
(* complete TokenSet the instance now holds, never an empty or partial     *)
(* document; so a file that is there always loads as a complete TokenSet.  *)
(***************************************************************************)
C27_SaveAtomic ==
    /\ [][token_file' \in {token_file, _save_tokens(tokens')}]_vars
    /\ [](token_file.exists => DOMAIN json_load(token_file.content) = TokenKeys)

\* the orders in which the four fetches can be issued
Orders ==
    {o \in [1..Len(Kinds) -> KindSet] : \A i, j \in 1..Len(Kinds) : o[i] = o[j] => i = j}

(***************************************************************************)
(* C28: get_all_health_data is order-insensitive: with the provider's      *)
(* behaviour per resource kind and the TokenSet at the call fixed, the     *)
(* mapping returned is the one the four fetches yield in any other order.  *)
(***************************************************************************)
C28_OrderInsensitive ==
    [][last'.op = "get_all_health_data" =>
          \A o \in Orders :
              fetch_from(o, 1,
                         [data |-> [kind \in KindSet |-> <<>>], fetches |-> <<>>,
                          s |-> [tokens |-> tokens, file |-> token_file, now |-> now,
                                 posts |-> 0, client |-> client],
                          err |-> Null],
                         last'.env).data = last'.ret]_vars

\* the records a response carries: the elements of its records array, or
\* its own elements when it is a bare array
RecordsOf(r) ==
    IF r.kind = "list" THEN {r.items[j] : j \in 1..Len(r.items)}
    ELSE IF "records" \in DOMAIN r.body
        THEN {r.body["records"][j] : j \in 1..Len(r.body["records"])}
    ELSE {}

(***************************************************************************)
(* C29: every element of the result of _paginate_request is a record of    *)
(* the records array of one of the responses (or an element of a           *)
(* bare-array response); a response object whose records array is empty    *)
(* adds nothing, and the response object itself is never an element.       *)
(***************************************************************************)
C29_OnlyRecords ==
    \A i \in 1..Len(call.all_records) :
        \E k \in 1..Len(call.responses) :
            call.all_records[i] \in RecordsOf(call.responses[k])

(***************************************************************************)
(* C30: a callback handler calls exchange_code_for_token only when the     *)
(* session holds a state stored by a login before it and the callback's    *)
(* state parameter is there and equal to it; with no stored state or no    *)
(* state parameter the exchange is not reached.                            *)
(***************************************************************************)
C30_ExchangeOnlyForOwnRequest ==
    (IsCallback(last) /\ last.posts >= 1) =>
        /\ last.expected /= Null
        /\ last.query.state /= Null
        /\ last.query.state = last.expected

(***************************************************************************)
(* C31: after every refresh that succeeded, made directly or by            *)
(* get_valid_access_token, the TokenSet holds a non-empty refresh token    *)
(* and is_authenticated is true, whatever 2xx body the token endpoint      *)
(* answered with, a refresh_token of null included.                        *)
(***************************************************************************)
C31_RefreshKeepsRefreshToken ==
    (last.refreshes >= 1 /\ last.posts >= 1 /\ last.err = Null) =>
        /\ HasRefreshToken(tokens)
        /\ is_authenticated(tokens)

\* the requests of a _paginate_request call follow the cursor protocol: the
\* first carries no nextToken, and each later one was sent after the
\* response before it and carries that response's continuation token
Sequential(c) ==
    /\ Len(c.requests) <= Len(c.responses) + 1
    /\ Len(c.requests) >= 1 => "nextToken" \notin DOMAIN c.requests[1].params
    /\ \A k \in 2..Len(c.requests) :
          /\ HasContinuation(c.responses[k - 1])
          /\ "nextToken" \in DOMAIN c.requests[k].params
          /\ c.requests[k].params["nextToken"] = c.responses[k - 1].body["next_token"]

(***************************************************************************)
(* C32: in each of the four fetches of get_all_health_data the cursor      *)
(* protocol is strictly sequential: the first request carries no           *)
(* nextToken, request k+1 is sent only after response k and carries        *)
(* exactly the continuation token of response k; so no request carries a   *)
(* token of another fetch's sequence.                                      *)
(***************************************************************************)
C32_CursorSequential ==
    last.op = "get_all_health_data" =>
        \A i \in 1..Len(last.fetches) : Sequential(last.fetches[i].call)

\* the sleep fetch followed a token to its second page and the cycles fetch
\* after it started again without one
C32_Witness ==
    /\ last.op = "get_all_health_data"
    /\ Len(last.fetches) = 4
    /\ last.fetches[2].kind = "sleep"
    /\ Len(last.fetches[2].call.requests) = 2
    /\ last.fetches[2].call.requests[2].params["nextToken"] = "n1"
    /\ last.fetches[2].call.pc = "returned"
    /\ last.fetches[3].kind = "cycles"
    /\ last.fetches[3].call.pc = "returned"
    /\ "nextToken" \notin DOMAIN last.fetches[3].call.requests[1].params

(***************************************************************************)
(* C33: each iteration of _paginate_request validates the token again: the *)
(* request it sends carries as bearer the access token                     *)
(* get_valid_access_token returned for it, which is the access token of    *)
(* the TokenSet after the validation (the renewed one when the validation  *)
(* refreshed); when get_valid_access_token raises, no request is sent.     *)
(***************************************************************************)
C33_BearerIsValidatedToken ==
    [][last'.op = "request" =>
          LET a == get_valid_access_token(tokens, token_file, now, last'.resp, 0)
              n == Len(call'.requests)
          IN  IF a.err /= Null
              THEN /\ call'.requests = call.requests
                   /\ last'.gets = 0
                   /\ last'.err = a.err
              ELSE /\ n = Len(call.requests) + 1
                   /\ last'.gets = 1
                   /\ call'.requests[n].bearer = a.ret
                   /\ call'.requests[n].bearer = tokens'["access_token"]
                   /\ \A k \in 1..(n - 1) : call'.requests[k] = call.requests[k]]_vars

\* the second request of a call carries the access token a refresh put in
\* place of the one the first request carried
C33_Witness ==
    /\ last.op = "request"
    /\ last.refreshes = 1 /\ last.posts = 1
    /\ Len(call.requests) = 2
    /\ call.requests[1].bearer = "at1"
    /\ call.requests[2].bearer = "at2"
    /\ tokens["access_token"] = "at2"

\* the credential is erased: no TokenSet in memory and no token file
Erased == tokens = EmptyDict /\ ~token_file.exists

(***************************************************************************)
(* C34: revoke_access leaves the credential erased, and it stays erased    *)
(* until an exchange succeeds: in between is_authenticated is false,       *)
(* get_valid_access_token fails with the not-authenticated error,          *)
(* refresh_access_token fails with the no-refresh-token error and          *)
(* _make_request sends no resource request.                                *)
(***************************************************************************)
C34_ErasedUntilExchange ==
    /\ [](last.op = "revoke" => Erased)
    /\ [][(Erased /\ ~(last'.op = "exchange" /\ last'.err = Null)) =>
              /\ Erased'
              /\ last'.op = "is_authenticated" => last'.ret = "False"
              /\ last'.op = "get_valid" =>
                    last'.err = "ValueError: No access token available"
              /\ last'.op = "refresh" =>
                    last'.err = "ValueError: No refresh token available"
              /\ last'.op = "request" =>
                    /\ last'.gets = 0
                    /\ last'.err = "ValueError: No access token available"]_vars

\* a request made on the erased credential: it raised and no GET was sent
C34_Witness ==
    /\ Erased
    /\ last.op = "request"
    /\ last.gets = 0
    /\ last.err = "ValueError: No access token available"

\* a TokenSet with an access token and no refresh token
Unrenewable(tk) == HasAccessToken(tk) /\ ~HasRefreshToken(tk)

(***************************************************************************)
(* C35: on a TokenSet with an access token and no refresh token,           *)
(* get_valid_access_token returns the access token without a network call  *)
(* while now < expires_at - 5 minutes, and from then on fails with the     *)
(* no-refresh-token error, the TokenSet and the file unchanged and no      *)
(* request sent; is_authenticated is false on such a TokenSet.             *)
(***************************************************************************)
C35_UsableNotRenewable ==
    [][Unrenewable(tokens) =>
          /\ last'.op = "get_valid" =>
                /\ last'.posts = 0
                /\ tokens' = tokens /\ token_file' = token_file /\ now' = now
                /\ IF Fresh(tokens, now)
                      THEN last'.err = Null /\ last'.ret = tokens["access_token"]
                      ELSE last'.err = "ValueError: No refresh token available"
          /\ last'.op = "is_authenticated" => last'.ret = "False"]_vars

\* the access token is within five minutes of its expiry and cannot be
\* renewed
C35_Witness ==
    /\ last.op = "get_valid"
    /\ last.err = "ValueError: No refresh token available"
    /\ Unrenewable(tokens)
    /\ ~Fresh(tokens, now)
    /\ last.posts = 0

(***************************************************************************)
(* C36: an empty TokenSet with no token file is populated only by a        *)
(* successful code exchange: generate_auth_url, refresh_access_token,      *)
(* get_valid_access_token, is_authenticated, revoke_access, a new          *)
(* instance and _make_request leave the TokenSet empty and the file        *)
(* absent and send nothing to the token endpoint.                          *)
(***************************************************************************)
C36_PopulatedOnlyByExchange ==
    [][Erased =>
          /\ last'.op /= "exchange" => (Erased' /\ last'.posts = 0)
          /\ ~Erased' => (/\ last'.op = "exchange"
                          /\ last'.err = Null
                          /\ IsGrant(last'.resp)
                          /\ HasAccessToken(tokens'))]_vars

\* a refresh attempted on the empty TokenSet: refused without a request
C36_Witness ==
    /\ Erased
    /\ last.op = "refresh"
    /\ last.posts = 0
    /\ last.err = "ValueError: No refresh token available"

(***************************************************************************)
(* C37: after a _make_request call that received a response, of whatever   *)
(* status, rate_limit_remaining and rate_limit_reset are the rate-limit    *)
(* headers of that response, None for a header that is not there, also     *)
(* when the call then raised for a non-2xx status; a call that failed      *)
(* before any response leaves both as they were.                           *)
(***************************************************************************)
C37_RateLimitsTracked ==
    [][last'.op = "request" =>
          IF last'.gets = 0
          THEN client' = client
          ELSE /\ client'.rate_limit_remaining = last'.api.headers.remaining
               /\ client'.rate_limit_reset = last'.api.headers.reset]_vars

\* a 429 answer that replaced the values recorded from an earlier answer,
\* the call raising afterwards
C37_Witness ==
    /\ last.op = "request"
    /\ last.api.status = 429
    /\ last.err = "HTTPError"
    /\ last.api.headers = [remaining |-> "0", reset |-> Null]
    /\ client = [rate_limit_remaining |-> "0", rate_limit_reset |-> Null]
====
